---- MODULE Spec2Model ----
(***************************************************************************)
(* Model of cookbooks/pipeline_lightonocr.py: pdf_to_md renders the pages  *)
(* of a PDF, fans one ocr_image call per page out over a                   *)
(* ThreadPoolExecutor, collects the outcomes keyed by page number and      *)
(* writes two Markdown files.                                              *)
(*                                                                         *)
(* Strings are sequences of tokens [k, n]; a Python value is a record      *)
(* [type, s] so that None and str can live in the same container.          *)
(***************************************************************************)
EXTENDS Integers, Sequences, FiniteSets, TLC

\* ---------------------------------------------------------------- constants
MAX_WORKERS == 8
REQUEST_TIMEOUT == 120
\* Retry(total=3, ...): the number of retries urllib3 allows
RetryTotal == 3
status_forcelist == {500, 502, 503, 504}
\* urllib3's Retry.DEFAULT_ALLOWED_METHODS: create_session passes no
\* allowed_methods, so status_forcelist applies to these methods only
allowed_methods == {"HEAD", "GET", "PUT", "DELETE", "OPTIONS", "TRACE"}

\* ------------------------------------------------------------------- bounds
MaxPages == 3
MaxPoolExtra == 1
MaxErrs == 4
MaxPathLen == 4
MaxRetryPages == 2
MaxBodyPages == 2
MaxPathPages == 1
MaxTextPieces == 4
MaxTextPages == 2
MaxTwicePages == 2
MaxRuns == 2
MaxSessionPages == 4

\* ------------------------------------------------------------------ strings
Lit(s) == [k |-> s, n |-> 0]
Num(v) == [k |-> "num", n |-> v]
Word(p) == [k |-> "word", n |-> p]

Str(s) == [type |-> "str", s |-> s]
None == [type |-> "NoneType", s |-> <<>>]

\* what the OCR model reads on each page of the document
VARIABLE page_text

PageText(p) == page_text[p]

\* f"\n\n## Page {page_num + 1}\n\n"
Separator(page_num) ==
    <<Lit("\\n"), Lit("\\n"), Lit("## Page "), Num(page_num + 1), Lit("\\n"), Lit("\\n")>>

\* f"[处理失败: {e}]"
ErrorMsg(e) == <<Lit("[processing failed: ")>> \o e \o <<Lit("]")>>

\* "".join(items): TypeError when an item is not a str
RECURSIVE Join(_)
Join(items) ==
    IF items = <<>> THEN <<>> ELSE Head(items).s \o Join(Tail(items))

AllStr(items) == \A i \in 1..Len(items) : items[i].type = "str"

\* -------------------------------------------------------------------- paths
PathChars == {"o", ".", "m", "d"}
DotMd == <<".", "m", "d">>
WithSeparatorsDotMd == <<"_with_separators", ".", "m", "d">>

StartsWith(s, prefix) ==
    /\ Len(s) >= Len(prefix)
    /\ SubSeq(s, 1, Len(prefix)) = prefix

\* str.replace(old, new): every non-overlapping occurrence, left to right
RECURSIVE Replace(_, _, _)
Replace(s, old, new) ==
    IF s = <<>> THEN <<>>
    ELSE IF StartsWith(s, old)
         THEN new \o Replace(SubSeq(s, Len(old) + 1, Len(s)), old, new)
         ELSE <<Head(s)>> \o Replace(Tail(s), old, new)

DefaultPath == <<"o", ".", "m", "d">>

RECURSIVE SeqsUpTo(_, _)
SeqsUpTo(S, n) ==
    IF n = 0 THEN {<<>>}
    ELSE LET shorter == SeqsUpTo(S, n - 1)
         IN  shorter \cup {Append(s, c) : s \in shorter, c \in S}

\* the paths that name a file: some character is not a dot
AllPaths ==
    {path \in SeqsUpTo(PathChars, MaxPathLen) : \E i \in 1 .. Len(path) : path[i] # "."}

\* ---------------------------------------------------------- the OCR endpoint
\* What the endpoint does with one HTTP request.  A script says how page p's
\* requests are answered: `errs` times with `pre`, then with `final`.
Bodies == {"ok", "content_null", "not_json", "no_choices", "choices_empty",
           "choices_null", "message_str", "no_content"}
Finals == Bodies \cup {"timeout", "status_404"}
Pres == {"status_500", "conn_refused"}

Script(pre, errs, final) == [pre |-> pre, errs |-> errs, final |-> final]

EndpointReply(script, attempt) ==
    IF attempt <= script.errs THEN script.pre ELSE script.final

StatusOf(reply) ==
    CASE reply = "status_500" -> 500
      [] reply = "status_404" -> 404
      [] OTHER -> 200

\* ------------------------------------------------------------ create_session
\* Retry.is_retry(method, status_code)
IsRetry(method, status_code) ==
    /\ method \in allowed_methods
    /\ status_code \in status_forcelist

\* Retry.increment(): total -= 1; exhausted when total < 0
IsExhausted(total) == total < 0

\* session.post(ENDPOINT, ...) through the HTTPAdapter mounted by
\* create_session: a refused connection is retried whatever the method, a
\* status of status_forcelist only when is_retry allows; a read timeout of a
\* POST is re-raised at once.
RECURSIVE Send(_, _, _, _)
Send(method, script, attempt, total) ==
    LET reply == EndpointReply(script, attempt)
    IN  IF reply = "conn_refused"
        THEN IF IsExhausted(total - 1)
             THEN [kind |-> "ConnectionError", status |-> 0, body |-> "", attempts |-> attempt]
             ELSE Send(method, script, attempt + 1, total - 1)
        ELSE IF reply = "timeout"
        THEN [kind |-> "Timeout", status |-> 0, body |-> "", attempts |-> attempt]
        ELSE IF IsRetry(method, StatusOf(reply))
        THEN IF IsExhausted(total - 1)
             THEN [kind |-> "RetryError", status |-> 0, body |-> "", attempts |-> attempt]
             ELSE Send(method, script, attempt + 1, total - 1)
        ELSE [kind |-> "response", status |-> StatusOf(reply), body |-> reply,
              attempts |-> attempt]

Post(script) == Send("POST", script, 1, RetryTotal)

\* ----------------------------------------------------------------- ocr_image
\* The containers response.json()['choices'][0]['message']['content'] meets,
\* one per subscript, for each body the endpoint can send.
Shape(body) ==
    CASE body = "ok" -> <<"dict_has", "list_has", "dict_has", "dict_has">>
      [] body = "content_null" -> <<"dict_has", "list_has", "dict_has", "dict_has">>
      [] body = "no_choices" -> <<"dict_missing">>
      [] body = "choices_empty" -> <<"dict_has", "list_empty">>
      [] body = "choices_null" -> <<"dict_has", "null">>
      [] body = "message_str" -> <<"dict_has", "list_has", "dict_has", "str">>
      [] body = "no_content" -> <<"dict_has", "list_has", "dict_has", "dict_missing">>
      [] OTHER -> <<>>

ContentPath == <<"str", "int", "str", "str">>

\* container[key]: the exception Python raises, or "ok"
Subscript(container, key) ==
    CASE container = "dict_has" -> "ok"
      [] container = "dict_missing" -> "KeyError"
      [] container = "list_has" -> IF key = "int" THEN "ok" ELSE "TypeError"
      [] container = "list_empty" -> IF key = "int" THEN "IndexError" ELSE "TypeError"
      [] container = "str" -> IF key = "int" THEN "ok" ELSE "TypeError"
      [] OTHER -> "TypeError"

RECURSIVE Walk(_, _)
Walk(shape, path) ==
    IF path = <<>> \/ shape = <<>> THEN "ok"
    ELSE LET r == Subscript(Head(shape), Head(path))
         IN  IF r = "ok" THEN Walk(Tail(shape), Tail(path)) ELSE r

Return(val) == [kind |-> "return", cls |-> "", val |-> val]
Raise(cls, msg) == [kind |-> "raise", cls |-> cls, val |-> Str(msg)]

TimeoutMsg == <<Lit("request timed out ("), Num(REQUEST_TIMEOUT), Lit("s)")>>
RequestFailedMsg(e) == <<Lit("request failed: ")>> \o e
ParseFailedMsg(e) == <<Lit("response parse failed: ")>> \o e

\* except requests.Timeout (line 87)
OnTimeoutAsRequestError == Raise("Exception", RequestFailedMsg(<<Lit("Timeout")>>))

OnTimeout == Raise("Exception", TimeoutMsg)

\* return response.json()[...] (line 86) and the handlers of lines 93-95
Extract(page_num, body) ==
    LET r == Walk(Shape(body), ContentPath)
    IN  CASE r = "ok" ->
               {Return(IF body = "ok" THEN Str(PageText(page_num)) ELSE None)}
          [] r \in {"KeyError", "IndexError"} ->
               {Raise("Exception", ParseFailedMsg(<<Lit(r)>>))}
          [] OTHER -> {Raise(r, <<Lit(r)>>)}

\* The outcomes of ocr_image(page_num, ...) when session.post ends as `post`.
\* response.json() of a body that is no JSON raises
\* requests.exceptions.JSONDecodeError, a RequestException from requests
\* 2.27 on and a plain ValueError before: either, depending on the build.
ocr_image(page_num, post) ==
    CASE post.kind = "Timeout" -> {OnTimeout}
      [] post.kind \in {"ConnectionError", "RetryError"} ->
           {Raise("Exception", RequestFailedMsg(<<Lit(post.kind)>>))}
      [] post.status >= 400 ->
           {Raise("Exception", RequestFailedMsg(<<Lit("HTTPError"), Num(post.status)>>))}
      [] post.body = "not_json" ->
           {Raise("Exception", RequestFailedMsg(<<Lit("JSONDecodeError")>>)),
            Raise("ValueError", <<Lit("JSONDecodeError")>>)}
      [] OTHER -> Extract(page_num, post.body)

\* --------------------------------------------------------------------- state
VARIABLES
    input,            \* the file at pdf_path: [file, pages, bad_page]
    output_md_path,   \* the caller's output path
    service,          \* the endpoint's script for each page
    pc,               \* where pdf_to_md is
    error,            \* the exception that ended pdf_to_md, "" if none
    total_pages,
    pages_data,       \* the page numbers rendered so far
    future_state,     \* page -> "none" | "PENDING" | "RUNNING" | "FINISHED"
    future_outcome,   \* page -> what ocr_image returned or raised
    work_queue,       \* the executor's FIFO of work items not yet taken
    num_threads,      \* worker threads the executor has spawned
    idle_semaphore,   \* the executor's _idle_semaphore
    yielded,          \* futures as_completed has handed to the loop
    results,
    failed_pages,
    completed,
    all_content,
    fs,               \* path -> text of the files written
    written,          \* the paths of the write_text calls, in order
    calls,            \* page -> number of ocr_image invocations
    requests,         \* page -> HTTP requests the endpoint received
    threads,          \* worker -> its thread-local storage and its work item
    schedule,         \* "free", or "ordered": how the work queue wakes the
                      \* workers and in what order the endpoint answers
    run,              \* which invocation of pdf_to_md this is
    fs_before         \* the files as they were when this invocation began

vars == <<input, output_md_path, service, pc, error, total_pages, pages_data,
          future_state, future_outcome, work_queue, num_threads, idle_semaphore,
          yielded, results, failed_pages, completed, all_content, fs, written,
          calls, requests, threads, page_text, schedule, run, fs_before>>

env == <<input, output_md_path, service, page_text, schedule, run, fs_before>>
render_vars == <<total_pages, pages_data>>
pool_vars == <<future_state, future_outcome, work_queue, num_threads,
               idle_semaphore, calls, requests, threads>>
loop_vars == <<yielded, results, failed_pages, completed>>
out_vars == <<all_content, fs, written>>

AllPages == 0 .. input.pages - 1
Running == {p \in AllPages : future_state[p] = "RUNNING"}
Resolved == {p \in AllPages : future_state[p] = "FINISHED"}
NoOutcome == [kind |-> "unset", cls |-> "", val |-> None]

Put(m, key, v) == [x \in DOMAIN m \cup {key} |-> IF x = key THEN v ELSE m[x]]

Docs(maxPages) ==
    {[file |-> "ok", pages |-> n, bad_page |-> b] :
        <<n, b>> \in {nb \in (0..maxPages) \X (-1..maxPages) : nb[2] < nb[1]}}
    \cup {[file |-> f, pages |-> 0, bad_page |-> -1] : f \in {"missing", "corrupt"}}

\* the state in which pdf_to_md is entered
InitRun ==
    /\ pc = "open"
    /\ error = ""
    /\ total_pages = 0
    /\ pages_data = <<>>
    /\ future_state = [p \in AllPages |-> "none"]
    /\ future_outcome = [p \in AllPages |-> NoOutcome]
    /\ work_queue = <<>>
    /\ num_threads = 0
    /\ idle_semaphore = 0
    /\ yielded = {}
    /\ results = <<>>
    /\ failed_pages = <<>>
    /\ completed = 0
    /\ all_content = <<>>
    /\ fs = <<>>
    /\ written = <<>>
    /\ calls = [p \in AllPages |-> 0]
    /\ requests = [p \in AllPages |-> 0]
    /\ threads = <<>>
    /\ run = 1
    /\ fs_before = <<>>

\* a document whose page p reads as the one word of page p
InitWith(docs, scripts, paths) ==
    /\ input \in docs
    /\ output_md_path \in paths
    /\ service \in [AllPages -> scripts]
    /\ page_text = [p \in AllPages |-> <<Word(p)>>]
    /\ schedule = "free"
    /\ InitRun

\* ----------------------------------------------------------------- pdf_to_md
\* lines 101-106: open(pdf_path), pdfium.PdfDocument(pdf_data), len(pdf)
Open ==
    /\ pc = "open"
    /\ IF input.file = "ok"
       THEN /\ total_pages' = input.pages
            /\ pc' = "render"
            /\ error' = error
       ELSE /\ pc' = "crashed"
            /\ error' = IF input.file = "missing" THEN "FileNotFoundError"
                        ELSE "PdfiumError"
            /\ total_pages' = total_pages
    /\ UNCHANGED <<env, pages_data, pool_vars, loop_vars, out_vars>>

\* as Render, but dispatch begins as soon as one page is rendered
RenderStreaming ==
    /\ pc = "render"
    /\ LET page_num == Len(pages_data)
       IN  IF page_num = total_pages \/ page_num >= 1
           THEN /\ pc' = "submit"
                /\ UNCHANGED <<error, pages_data>>
           ELSE IF page_num = input.bad_page
           THEN /\ pc' = "crashed"
                /\ error' = "PdfiumError"
                /\ UNCHANGED pages_data
           ELSE /\ pages_data' = Append(pages_data, page_num)
                /\ UNCHANGED <<pc, error>>
    /\ UNCHANGED <<env, total_pages, pool_vars, loop_vars, out_vars>>

\* lines 112-116: one turn of the rendering loop, or its end
Render ==
    /\ pc = "render"
    /\ LET page_num == Len(pages_data)
       IN  IF page_num = total_pages
           THEN /\ pc' = "submit"
                /\ UNCHANGED <<error, pages_data>>
           ELSE IF page_num = input.bad_page
           THEN /\ pc' = "crashed"
                /\ error' = "PdfiumError"
                /\ UNCHANGED pages_data
           ELSE /\ pages_data' = Append(pages_data, page_num)
                /\ UNCHANGED <<pc, error>>
    /\ UNCHANGED <<env, total_pages, pool_vars, loop_vars, out_vars>>

\* ThreadPoolExecutor._adjust_thread_count with max_workers=MAX_WORKERS
\* (line 124): the thread count after a submit
AdjustThreadCountUncapped(n, idle) == IF idle > 0 THEN n ELSE n + 1

AdjustThreadCount(n, idle) ==
    IF idle > 0 THEN n
    ELSE IF n < MAX_WORKERS THEN n + 1 ELSE n

\* lines 126-129: one executor.submit of the dict comprehension, or its end
Submit ==
    /\ pc = "submit"
    /\ LET nsub == Cardinality({p \in AllPages : future_state[p] # "none"})
       IN  IF nsub = Len(pages_data)
           THEN /\ pc' = "collect"
                /\ UNCHANGED pool_vars
           ELSE LET page_num == pages_data[nsub + 1]
                IN  /\ future_state' = [future_state EXCEPT ![page_num] = "PENDING"]
                    /\ work_queue' = Append(work_queue, page_num)
                    /\ num_threads' = AdjustThreadCount(num_threads, idle_semaphore)
                    /\ idle_semaphore' = IF idle_semaphore > 0 THEN idle_semaphore - 1
                                         ELSE idle_semaphore
                    /\ UNCHANGED <<pc, future_outcome, calls, requests, threads>>
    /\ UNCHANGED <<env, error, render_vars, loop_vars, out_vars>>

\* line 17: what threading.local() holds for a worker that has not run yet
NewThread == [session |-> None, item |-> <<>>]

\* the workers are named in the order in which they first take a work item
Workers == DOMAIN threads
IdleWorkers == {t \in Workers : threads[t].item = <<>>}
FreshWorker ==
    IF Cardinality(Workers) < num_threads THEN {Cardinality(Workers) + 1} ELSE {}
Local(t) == IF t \in Workers THEN threads[t] ELSE NewThread

\* queue.get() in the workers: the waiting worker that gets the work item is
\* any of them, or under the ordered schedule the first-named one
Woken(waiting) ==
    IF schedule = "free" THEN waiting
    ELSE {t \in waiting : \A u \in waiting : t <= u}

\* line 83: the endpoint answers the requests in any order, or under the
\* ordered schedule in the order in which the calls began
Answered(p) ==
    schedule = "free" \/ \A q \in Running : p <= q

\* the sessions the workers hold; a session is named by its place in the
\* order in which the sessions of this run were created
Sessions == {threads[t].session : t \in Workers} \ {None}

\* lines 27-42
create_session == [type |-> "Session", s |-> <<Num(Cardinality(Sessions) + 1)>>]

\* one session for every thread, as get_session (lines 49-54) hands out
GetSessionShared(local) ==
    IF Sessions = {}
    THEN [local EXCEPT !.session = create_session]
    ELSE [local EXCEPT !.session = CHOOSE x \in Sessions : TRUE]

\* lines 20-24: the thread's own session, created on its first call
get_thread_session(local) ==
    IF local.session = None
    THEN [local EXCEPT !.session = create_session]
    ELSE local

\* the worker that ran page p waits for its next work item
Release(p) ==
    [t \in Workers |->
        IF threads[t].item = <<p>> THEN [threads[t] EXCEPT !.item = <<>>]
        ELSE threads[t]]

\* a worker thread that is not running a work item takes the next one,
\* enters ocr_image (line 64) and fetches its session (line 66)
Start(p) ==
    /\ work_queue # <<>>
    /\ p = Head(work_queue)
    /\ Cardinality(Running) < num_threads
    /\ \E t \in Woken(IdleWorkers \cup FreshWorker) :
         threads' = Put(threads, t,
                        [get_thread_session(Local(t)) EXCEPT !.item = <<p>>])
    /\ work_queue' = Tail(work_queue)
    /\ future_state' = [future_state EXCEPT ![p] = "RUNNING"]
    /\ calls' = [calls EXCEPT ![p] = @ + 1]
    /\ UNCHANGED <<env, pc, error, render_vars, future_outcome, num_threads,
                   idle_semaphore, requests, loop_vars, out_vars>>

\* as Finish, but a call that raised is made once more
FinishRetrying(p) ==
    /\ future_state[p] = "RUNNING"
    /\ Answered(p)
    /\ LET post == Post(service[p])
       IN  /\ requests' = [requests EXCEPT ![p] = @ + post.attempts]
           /\ \E o \in ocr_image(p, post) :
                IF o.kind = "raise" /\ calls[p] < 2
                THEN /\ calls' = [calls EXCEPT ![p] = @ + 1]
                     /\ UNCHANGED <<future_outcome, future_state, idle_semaphore,
                                    threads>>
                ELSE /\ future_outcome' = [future_outcome EXCEPT ![p] = o]
                     /\ future_state' = [future_state EXCEPT ![p] = "FINISHED"]
                     /\ idle_semaphore' = idle_semaphore + 1
                     /\ threads' = Release(p)
                     /\ UNCHANGED calls
    /\ UNCHANGED <<env, pc, error, render_vars, work_queue, num_threads,
                   loop_vars, out_vars>>

\* lines 81-95: the HTTP exchange of page p ends and ocr_image returns or
\* raises; the worker sets the future and releases the idle semaphore
Finish(p) ==
    /\ future_state[p] = "RUNNING"
    /\ Answered(p)
    /\ LET post == Post(service[p])
       IN  /\ \E o \in ocr_image(p, post) :
                future_outcome' = [future_outcome EXCEPT ![p] = o]
           /\ requests' = [requests EXCEPT ![p] = @ + post.attempts]
    /\ future_state' = [future_state EXCEPT ![p] = "FINISHED"]
    /\ idle_semaphore' = idle_semaphore + 1
    /\ threads' = Release(p)
    /\ UNCHANGED <<env, pc, error, render_vars, work_queue, num_threads, calls,
                   loop_vars, out_vars>>

\* lines 136-139: future.result() returned text
OnSuccessKeyedByCount(page_num, text) ==
    /\ results' = Put(results, completed, text)
    /\ completed' = completed + 1
    /\ UNCHANGED failed_pages

OnSuccess(page_num, text) ==
    /\ results' = Put(results, page_num, text)
    /\ completed' = completed + 1
    /\ UNCHANGED failed_pages

\* lines 140-144: future.result() raised e
OnFailureDropped(page_num, e) ==
    /\ failed_pages' = Append(failed_pages, page_num + 1)
    /\ UNCHANGED <<results, completed>>

\* as OnFailure, but the page is reported by its zero-based index
OnFailureZeroBased(page_num, e) ==
    /\ results' = Put(results, page_num, Str(ErrorMsg(e)))
    /\ failed_pages' = Append(failed_pages, page_num)
    /\ UNCHANGED completed

\* as OnFailure, but the mapping is made anew with the failed page alone
OnFailureResetting(page_num, e) ==
    /\ results' = Put(<<>>, page_num, Str(ErrorMsg(e)))
    /\ failed_pages' = Append(failed_pages, page_num + 1)
    /\ UNCHANGED completed

\* as OnFailure, but the failed page is counted as completed too
OnFailureCounted(page_num, e) ==
    /\ results' = Put(results, page_num, Str(ErrorMsg(e)))
    /\ failed_pages' = Append(failed_pages, page_num + 1)
    /\ completed' = completed + 1

OnFailure(page_num, e) ==
    /\ results' = Put(results, page_num, Str(ErrorMsg(e)))
    /\ failed_pages' = Append(failed_pages, page_num + 1)
    /\ UNCHANGED completed

\* lines 133-144: one turn of the as_completed loop, for the future of page p
Collect(p) ==
    /\ pc = "collect"
    /\ future_state[p] = "FINISHED"
    /\ p \notin yielded
    /\ yielded' = yielded \cup {p}
    /\ LET o == future_outcome[p]
       IN  IF o.kind = "return"
           THEN OnSuccess(p, o.val)
           ELSE OnFailure(p, o.val.s)
    /\ UNCHANGED <<env, pc, error, render_vars, pool_vars, out_vars>>

\* an early exit: the loop is left at the first outcome and nothing is joined
ShutdownEarlyExit ==
    /\ pc = "collect"
    /\ yielded # {}
    /\ pc' = "assemble"
    /\ UNCHANGED <<env, error, render_vars, pool_vars, loop_vars, out_vars>>

\* the as_completed loop ends when every future was yielded, and leaving the
\* with block (line 124) joins the worker threads
Shutdown ==
    /\ pc = "collect"
    /\ yielded = {p \in AllPages : future_state[p] # "none"}
    /\ work_queue = <<>>
    /\ Running = {}
    /\ pc' = "assemble"
    /\ UNCHANGED <<env, error, render_vars, pool_vars, loop_vars, out_vars>>

\* lines 147-150
RECURSIVE AllContent(_, _, _)
AllContent(res, page_num, n) ==
    IF page_num >= n THEN <<>>
    ELSE <<Str(Separator(page_num)), res[page_num]>> \o AllContent(res, page_num + 1, n)

\* lines 147-153: all_content and "".join(all_content)
Assemble ==
    /\ pc = "assemble"
    /\ IF \E p \in 0 .. total_pages - 1 : p \notin DOMAIN results
       THEN /\ pc' = "crashed"
            /\ error' = "KeyError"
            /\ UNCHANGED all_content
       ELSE /\ all_content' = AllContent(results, 0, total_pages)
            /\ IF AllStr(all_content')
               THEN /\ pc' = "write_sep"
                    /\ UNCHANGED error
               ELSE /\ pc' = "crashed"
                    /\ error' = "TypeError"
    /\ UNCHANGED <<env, render_vars, pool_vars, loop_vars, fs, written>>

\* line 156
OutputPathWithSeparators(path) == Replace(path, DotMd, WithSeparatorsDotMd)

\* Path(path).write_text(text) with the file opened for appending
WriteTextAppending(files, path, text) ==
    Put(files, path, (IF path \in DOMAIN files THEN files[path] ELSE <<>>) \o text)

\* Path(path).write_text(text) (lines 157 and 167): the file is replaced
WriteText(files, path, text) == Put(files, path, text)

\* lines 156-157
WriteSeparators ==
    /\ pc = "write_sep"
    /\ LET output_path_with_separators == OutputPathWithSeparators(output_md_path)
       IN  /\ fs' = WriteText(fs, output_path_with_separators, Join(all_content))
           /\ written' = Append(written, output_path_with_separators)
    /\ pc' = "write_clean"
    /\ UNCHANGED <<env, error, render_vars, pool_vars, loop_vars, all_content>>

\* the items at the even indices, the separators
CleanContentEvenIndices(items) == [i \in 1 .. Len(items) \div 2 |-> items[2 * i - 1]]

\* lines 161-166
CleanContent(items) == [i \in 1 .. Len(items) \div 2 |-> items[2 * i]]

\* lines 161-172
WriteClean ==
    /\ pc = "write_clean"
    /\ fs' = WriteText(fs, output_md_path, Join(CleanContent(all_content)))
    /\ written' = Append(written, output_md_path)
    /\ pc' = "done"
    /\ UNCHANGED <<env, error, render_vars, pool_vars, loop_vars, all_content>>

Next ==
    \/ Open
    \/ Render
    \/ Submit
    \/ \E p \in AllPages : Start(p)
    \/ \E p \in AllPages : Finish(p)
    \/ \E p \in AllPages : Collect(p)
    \/ Shutdown
    \/ Assemble
    \/ WriteSeparators
    \/ WriteClean

\* pdf_to_md is called once more with the same arguments, after a run that
\* wrote its files: every local starts afresh, the files stay
Rerun ==
    /\ pc = "done"
    /\ run < MaxRuns
    /\ run' = run + 1
    /\ fs_before' = fs
    /\ pc' = "open"
    /\ total_pages' = 0
    /\ pages_data' = <<>>
    /\ future_state' = [p \in AllPages |-> "none"]
    /\ future_outcome' = [p \in AllPages |-> NoOutcome]
    /\ work_queue' = <<>>
    /\ num_threads' = 0
    /\ idle_semaphore' = 0
    /\ yielded' = {}
    /\ results' = <<>>
    /\ failed_pages' = <<>>
    /\ completed' = 0
    /\ all_content' = <<>>
    /\ written' = <<>>
    /\ calls' = [p \in AllPages |-> 0]
    /\ requests' = [p \in AllPages |-> 0]
    /\ threads' = <<>>
    /\ UNCHANGED <<input, output_md_path, service, page_text, schedule, error,
                   fs>>

NextTwice ==
    \/ Next
    \/ Rerun

\* ------------------------------------------------------------ specifications
MainFinals == {"ok", "timeout", "status_404", "content_null"}
MainScripts == {Script("status_500", 0, f) : f \in MainFinals}

Init == InitWith(Docs(MaxPages), MainScripts, {DefaultPath})

Spec == Init /\ [][Next]_vars

\* documents with more pages than the pool has workers, every page read
PoolDocs ==
    {[file |-> "ok", pages |-> n, bad_page |-> -1] :
        n \in MAX_WORKERS + 1 .. MAX_WORKERS + MaxPoolExtra}

\* the ordered schedule keeps the runs of these documents few
InitPool ==
    /\ input \in PoolDocs
    /\ output_md_path = DefaultPath
    /\ service = [p \in AllPages |-> Script("status_500", 0, "ok")]
    /\ page_text = [p \in AllPages |-> <<Word(p)>>]
    /\ schedule = "ordered"
    /\ InitRun

SpecPool == InitPool /\ [][Next]_vars

\* the documents of the pool under the ordered schedule, and short documents
\* under the free one
InitSessions ==
    \/ InitPool
    \/ InitWith(Docs(MaxSessionPages), {Script("status_500", 0, "ok")},
                {DefaultPath})

SpecSessions == InitSessions /\ [][Next]_vars

\* an endpoint that refuses connections or answers 500 some times before it
\* answers a page
RetryScripts ==
    {Script(pre, errs, "ok") : pre \in Pres, errs \in 0 .. MaxErrs}

InitRetry == InitWith(Docs(MaxRetryPages), RetryScripts, {DefaultPath})

SpecRetry == InitRetry /\ [][Next]_vars

\* an endpoint that answers at once, with any of the bodies
BodyScripts == {Script("status_500", 0, f) : f \in Finals}

InitBody == InitWith(Docs(MaxBodyPages), BodyScripts, {DefaultPath})

SpecBody == InitBody /\ [][Next]_vars

\* any output path, for a document of at most one page that is read
InitPath == InitWith(Docs(MaxPathPages), {Script("status_500", 0, "ok")}, AllPaths)

SpecPath == InitPath /\ [][Next]_vars

\* The texts the OCR model can read on a page: up to MaxTextPieces pieces,
\* each the page's word, a newline or a line `## Page 1`.
TextPieces(p) == {<<Word(p)>>, <<Lit("\\n")>>, <<Lit("## Page "), Num(1)>>}

RECURSIVE Flatten(_)
Flatten(pieces) ==
    IF pieces = <<>> THEN <<>> ELSE Head(pieces) \o Flatten(Tail(pieces))

Texts(p) == {Flatten(pieces) : pieces \in SeqsUpTo(TextPieces(p), MaxTextPieces)}

\* a document that is read, one page of which reads as any of the texts
InitText ==
    /\ input \in Docs(MaxTextPages)
    /\ output_md_path = DefaultPath
    /\ service = [p \in AllPages |-> Script("status_500", 0, "ok")]
    /\ page_text \in
          {[p \in AllPages |-> <<Word(p)>>]}
          \cup UNION {{[p \in AllPages |-> IF p = q THEN t ELSE <<Word(p)>>] :
                          t \in Texts(q)} : q \in AllPages}
    /\ schedule = "free"
    /\ InitRun

SpecText == InitText /\ [][Next]_vars

\* runs that are repeated on the same document, endpoint and output path;
\* the path <<"o">> makes both writes go to one file
InitTwice == InitWith(Docs(MaxTwicePages), MainScripts, {DefaultPath, <<"o">>})

SpecTwice == InitTwice /\ [][NextTwice]_vars

\* -------------------------------------------------------------------- claims
\* the as_completed loop of pdf_to_md has ended
LoopEnded ==
    \/ pc \in {"assemble", "write_sep", "write_clean", "done"}
    \/ pc = "crashed" /\ error \in {"TypeError", "KeyError"}

\* C1: when the collection loop ends, results has exactly N entries and its
\* key set is exactly {0, ..., N-1}, whatever pages failed and in whatever
\* order the calls completed.
C1_ResultsComplete ==
    LoopEnded =>
        /\ DOMAIN results = 0 .. input.pages - 1
        /\ Cardinality(DOMAIN results) = input.pages

\* a document of several pages, all of which failed, at the end of the loop
C1_Witness ==
    /\ pc = "assemble"
    /\ input.pages >= 2
    /\ Len(failed_pages) = input.pages
    /\ DOMAIN results = 0 .. input.pages - 1

\* the page words of a text stand in strictly increasing page order
WordsAscending(text) ==
    \A i, j \in 1 .. Len(text) :
        (i < j /\ text[i].k = "word" /\ text[j].k = "word") => text[i].n < text[j].n

\* the `## Page k` headings of a text are numbered in strictly increasing
\* order and each is followed, after its two newlines, by the outcome of page k-1
HeadingsAscending(text) ==
    \A i, j \in 1 .. Len(text) :
        (i < j /\ text[i] = Lit("## Page ") /\ text[j] = Lit("## Page "))
            => text[i + 1].n < text[j + 1].n

HeadingsCarryTheirPage(text) ==
    \A i \in 1 .. Len(text) :
        text[i] = Lit("## Page ") =>
            LET page == text[i + 1].n - 1
                body == results[page].s
            IN  /\ page \in DOMAIN results
                /\ Len(text) >= i + 3 + Len(body)
                /\ SubSeq(text, i + 4, i + 3 + Len(body)) = body

Contains(text, tok) == \E i \in 1 .. Len(text) : text[i] = tok

\* C2: every file pdf_to_md has written lists the pages in strictly
\* increasing page_index order, whatever order the ocr_image calls completed
\* in: page words ascend, headings ascend and carry their own page's outcome,
\* and no page that was read is missing.
C2_PageOrder ==
    \A path \in DOMAIN fs :
        /\ WordsAscending(fs[path])
        /\ HeadingsAscending(fs[path])
        /\ HeadingsCarryTheirPage(fs[path])
        /\ \A p \in AllPages :
              results[p] = Str(PageText(p)) => Contains(fs[path], Word(p))

\* both files written although page 3 failed before page 1 did, page 2 read
C2_Witness ==
    /\ pc = "done"
    /\ Cardinality(DOMAIN fs) = 2
    /\ input.pages >= 3
    /\ failed_pages = <<3, 1>>
    /\ results[1] = Str(PageText(1))

\* C3: a per-page OCR error never aborts the run and leaves a Failure outcome
\* for its page; only errors raised before dispatch abort pdf_to_md.
C3_PerPageErrorsContained ==
    /\ pc = "crashed" =>
          /\ error \in {"FileNotFoundError", "PdfiumError"}
          /\ \A p \in AllPages : calls[p] = 0
    /\ \A p \in DOMAIN results :
          service[p].final # "ok" =>
              /\ results[p].type = "str"
              /\ results[p].s # <<>>
              /\ Head(results[p].s) = Lit("[processing failed: ")

\* ocr_image calls that have started and not yet resolved
InFlight == Cardinality(Running)
Started == {p \in AllPages : future_state[p] \in {"RUNNING", "FINISHED"}}

\* C4: at most MAX_WORKERS ocr_image calls are in flight, and a page beyond
\* the first MAX_WORKERS has started only if enough earlier calls resolved
\* to free a worker for it.
C4_ConcurrencyCap ==
    /\ InFlight <= MAX_WORKERS
    /\ num_threads <= MAX_WORKERS
    /\ Cardinality(Started) <= Cardinality(Resolved) + MAX_WORKERS
    /\ \A p \in Started : p < Cardinality(Resolved) + MAX_WORKERS

\* the pool is full and a submitted page is waiting in the executor queue
C4_Witness ==
    /\ InFlight = MAX_WORKERS
    /\ work_queue # <<>>
    /\ Resolved = {}

IsFailureMarker(v) ==
    /\ v.type = "str"
    /\ v.s # <<>>
    /\ Head(v.s) = Lit("[processing failed: ")
    /\ v.s[Len(v.s)] = Lit("]")

\* C5: ocr_image is invoked at most once per page at any time and exactly
\* once per page when the loop has ended, failed pages included; the endpoint
\* sees more than one request for a page only through the transport's
\* retries of a refused connection.
C5_SubmittedOnce ==
    /\ \A p \in AllPages :
          /\ calls[p] <= 1
          /\ Cardinality({i \in 1 .. Len(work_queue) : work_queue[i] = p}) <= 1
          /\ (p \in Started) = (calls[p] = 1)
          /\ requests[p] > 1 => (service[p].pre = "conn_refused" /\ service[p].errs >= 1)
    /\ LoopEnded => \A p \in AllPages : calls[p] = 1 /\ requests[p] >= 1

\* the run is over, a page failed after the transport's retries and one was read
C5_Witness ==
    /\ pc = "done"
    /\ \E p, q \in AllPages :
          /\ IsFailureMarker(results[p])
          /\ requests[p] > 1
          /\ calls[p] = 1
          /\ results[q] = Str(PageText(q))
          /\ calls[q] = 1

\* C6: the main thread is past the with block, or a file has been written,
\* only when every submitted task has resolved and was collected.
C6_FullBarrier ==
    (pc \in {"assemble", "write_sep", "write_clean", "done"} \/ written # <<>>)
        => /\ \A p \in AllPages : future_state[p] = "FINISHED"
           /\ yielded = AllPages
           /\ work_queue = <<>>

\* the first file is written, after several tasks of which one failed
C6_Witness ==
    /\ pc = "write_clean"
    /\ Len(written) = 1
    /\ input.pages >= 2
    /\ failed_pages # <<>>
    /\ completed >= 1

\* C7: 500s below the cap followed by a success give Success; 500s beyond the
\* cap give Failure; the endpoint sees at most 3 requests per page.
C7_TransportRetry ==
    \A p \in DOMAIN results :
        /\ requests[p] <= 3
        /\ (service[p].pre = "status_500" /\ service[p].errs < 3)
              => results[p] = Str(PageText(p))
        /\ (service[p].pre = "status_500" /\ service[p].errs > 3)
              => IsFailureMarker(results[p])

\* C8: a 2xx answer whose body is no JSON, lacks choices[0].message.content
\* or has a wrong type on that path gives a Failure whose message names a
\* response-parse failure.
C8_ParseFailureNamed ==
    \A p \in DOMAIN results :
        service[p].final \in Bodies \ {"ok"} =>
            /\ IsFailureMarker(results[p])
            /\ Contains(results[p].s, Lit("response parse failed: "))
            /\ p + 1 \in {failed_pages[i] : i \in 1 .. Len(failed_pages)}

\* the document can be read and every page is answered in time or not at all
OnlyTimeouts ==
    /\ input.file = "ok"
    /\ input.bad_page = -1
    /\ \A p \in AllPages : service[p].final \in {"ok", "timeout"}

\* C9: a page whose request timed out gets a failure marker that carries
\* REQUEST_TIMEOUT; the timeout changes no other page's outcome, never ends
\* the run with an exception, and the files written hold the marker and the
\* text of the pages that were read.
C9_TimeoutContained ==
    /\ \A p \in DOMAIN results :
          service[p].final = "timeout" =>
              /\ IsFailureMarker(results[p])
              /\ Contains(results[p].s, Num(REQUEST_TIMEOUT))
              /\ \A q \in DOMAIN results :
                    service[q].final = "ok" => results[q] = Str(PageText(q))
    /\ OnlyTimeouts =>
          /\ pc # "crashed"
          /\ pc = "done" =>
                \A path \in {output_md_path, OutputPathWithSeparators(output_md_path)} :
                    /\ path \in DOMAIN fs
                    /\ \A p \in AllPages :
                          IF service[p].final = "ok"
                          THEN Contains(fs[path], Word(p))
                          ELSE Contains(fs[path], Num(REQUEST_TIMEOUT))

\* three pages, the middle one timed out, the run is over and both files
\* hold the two pages read and the marker
C9_Witness ==
    /\ pc = "done"
    /\ input.pages = 3
    /\ service[1].final = "timeout"
    /\ service[0].final = "ok"
    /\ service[2].final = "ok"
    /\ failed_pages = <<2>>
    /\ Contains(fs[output_md_path], Num(REQUEST_TIMEOUT))
    /\ Contains(fs[output_md_path], Word(2))

\* the position of the final extension of a path: its last ".", or past the
\* end of a path without one
RECURSIVE LastDot(_, _)
LastDot(path, i) ==
    IF i = 0 THEN Len(path) + 1
    ELSE IF path[i] = "." THEN i ELSE LastDot(path, i - 1)

InsertBeforeFinalExtension(path) ==
    LET d == LastDot(path, Len(path))
    IN  SubSeq(path, 1, d - 1) \o <<"_with_separators">> \o SubSeq(path, d, Len(path))

\* C10: the with-separators text goes to the path with `_with_separators`
\* inserted once before the final extension, the clean text to the caller's
\* path, and these are two files.
C10_TwoDistinctFiles ==
    pc = "done" =>
        LET derived == InsertBeforeFinalExtension(output_md_path)
        IN  /\ written = <<derived, output_md_path>>
            /\ derived # output_md_path
            /\ DOMAIN fs = {derived, output_md_path}
            /\ fs[derived] = Join(all_content)
            /\ fs[output_md_path] = Join(CleanContent(all_content))

IsSeparatorAt(text, i) ==
    /\ Len(text) >= i + 5
    /\ text[i] = Lit("\\n")
    /\ text[i + 1] = Lit("\\n")
    /\ text[i + 2] = Lit("## Page ")
    /\ text[i + 3].k = "num"
    /\ text[i + 4] = Lit("\\n")
    /\ text[i + 5] = Lit("\\n")

\* a text with every `## Page N` heading and its surrounding blank lines
\* removed, left to right
RECURSIVE StripSeparators(_)
StripSeparators(text) ==
    IF text = <<>> THEN <<>>
    ELSE IF IsSeparatorAt(text, 1)
         THEN StripSeparators(SubSeq(text, 7, Len(text)))
         ELSE <<Head(text)>> \o StripSeparators(Tail(text))

WithSeparatorsFile == fs[OutputPathWithSeparators(output_md_path)]
CleanFile == fs[output_md_path]

\* C11 as stated: for every page text, the clean file is the with-separators
\* file with all `## Page N` headings and their blank lines removed.
C11_RoundTripAnyText ==
    pc = "done" => CleanFile = StripSeparators(WithSeparatorsFile)

NoHeadingInTexts ==
    \A p \in DOMAIN results : ~Contains(results[p].s, Lit("## Page "))

\* C11 amended: when no page's text holds a `## Page N` line, the clean file
\* is the with-separators file with every `## Page N` heading and its blank
\* lines removed, and it is the page texts in page order.
C11_RoundTrip ==
    (pc = "done" /\ NoHeadingInTexts) =>
        /\ CleanFile = StripSeparators(WithSeparatorsFile)
        /\ CleanFile = Flatten([p \in 1 .. input.pages |-> results[p - 1].s])

\* two pages, the first ending in blank lines and none holding a heading
C11_Witness ==
    /\ pc = "done"
    /\ input.pages = 2
    /\ NoHeadingInTexts
    /\ page_text[0] = <<Word(0), Lit("\\n"), Lit("\\n")>>
    /\ CleanFile # WithSeparatorsFile

\* the pages whose ocr_image call raised
Raised == {p \in AllPages : future_outcome[p].kind = "raise"}

\* what a page contributes to the files, from what its call returned or raised
ExpectedText(p) ==
    LET o == future_outcome[p]
    IN  IF o.kind = "raise"
        THEN <<Lit("[processing failed: ")>> \o o.val.s \o <<Lit("]")>>
        ELSE o.val.s

\* C12: failed_pages lists page_index+1 for exactly the collected pages whose
\* call raised, each once; when the files are written, a page whose call
\* raised stands in them as the bracketed failure message and every other
\* page as the text its call returned.
C12_FailureReporting ==
    /\ {failed_pages[i] : i \in 1 .. Len(failed_pages)} = {p + 1 : p \in Raised \cap yielded}
    /\ Len(failed_pages) = Cardinality(Raised \cap yielded)
    /\ pc = "done" =>
          /\ CleanFile = Flatten([i \in 1 .. input.pages |-> ExpectedText(i - 1)])
          /\ WithSeparatorsFile =
                Flatten([i \in 1 .. 2 * input.pages |->
                            IF i % 2 = 1 THEN Separator((i - 1) \div 2)
                            ELSE ExpectedText(i \div 2 - 1)])

\* the run is over; the second page's call raised a TypeError that ocr_image
\* does not handle, the first page was read
C12_Witness ==
    /\ pc = "done"
    /\ input.pages = 2
    /\ failed_pages = <<2>>
    /\ future_outcome[1].cls = "TypeError"
    /\ results[0] = Str(<<Word(0)>>)

NoOcrRequest ==
    /\ \A p \in AllPages : calls[p] = 0 /\ requests[p] = 0 /\ future_state[p] = "none"
    /\ work_queue = <<>>

FatalInput == input.file # "ok" \/ input.bad_page >= 0

\* C14: a page is submitted or an ocr_image call begun only when every page
\* of the document has been rendered; a run whose input file is missing or
\* unreadable, or one of whose pages fails to render, issues no OCR request
\* and writes no file, and ends with that error.
C14_StageOrdering ==
    /\ ~NoOcrRequest =>
          /\ pages_data = [i \in 1 .. input.pages |-> i - 1]
          /\ pc \notin {"open", "render"}
    /\ FatalInput =>
          /\ NoOcrRequest
          /\ written = <<>>
          /\ fs = <<>>
          /\ pc \in {"open", "render", "crashed"}
          /\ pc = "crashed" => error \in {"FileNotFoundError", "PdfiumError"}

\* the second page of a document fails to render after the first was rendered
C14_Witness ==
    /\ pc = "crashed"
    /\ error = "PdfiumError"
    /\ input.bad_page = 1
    /\ pages_data = <<0>>
    /\ NoOcrRequest

\* C13: when a repeated run ends, the files are what they were after the run
\* before it, whatever the completion orders were; and a write leaves in the
\* file exactly the text written, not the old content followed by it.
C13_Idempotent ==
    /\ (run >= 2 /\ pc = "done") => fs = fs_before
    /\ pc = "write_clean" => WithSeparatorsFile = Join(all_content)
    /\ pc = "done" => CleanFile = Join(CleanContent(all_content))

\* the second run is over; in it the two failures came in the other order
\* than the pages, and the files hold text
C13_Witness ==
    /\ run = 2
    /\ pc = "done"
    /\ input.pages = 2
    /\ failed_pages = <<2, 1>>
    /\ output_md_path = DefaultPath
    /\ fs = fs_before
    /\ CleanFile # <<>>

\* C15 as stated: the entry of a page is written by the worker that handles
\* the page, so results changes only in the step in which a worker's call
\* resolves.
C15_WrittenByWorker ==
    [][results' # results =>
          \E p \in AllPages :
              future_state[p] = "RUNNING" /\ future_state'[p] = "FINISHED"]_vars

\* C15 amended: the entry of a page is written exactly once, by the
\* collection loop of the main thread in the turn that takes the page's
\* future from as_completed, and no step changes or removes an entry.
C15_WrittenOnce ==
    [][/\ \A p \in DOMAIN results : p \in DOMAIN results' /\ results'[p] = results[p]
       /\ results' # results =>
             /\ pc = "collect"
             /\ \E p \in AllPages \ DOMAIN results :
                   /\ future_state[p] = "FINISHED"
                   /\ yielded' = yielded \cup {p}
                   /\ p \notin yielded
                   /\ DOMAIN results' = DOMAIN results \cup {p}]_vars

\* the run is over and every page has the entry the loop stored, one of them
\* a failure, and assembly read the entries as they were stored
C15_Witness ==
    /\ pc = "done"
    /\ input.pages = 3
    /\ DOMAIN results = 0 .. 2
    /\ failed_pages = <<1>>
    /\ completed = 2
    /\ all_content[2] = results[0]

SessionOf(t) == threads[t].session

\* the session worker t created in its first call: the t-th of the run
FirstSession(t) == [type |-> "Session", s |-> <<Num(t)>>]

\* C16: every worker thread that has entered ocr_image holds the one session
\* it created in its first call, and gets that session in every later call;
\* no two workers hold the same session, so the calls in flight all use
\* different sessions; a run has as many sessions as workers that ran, and
\* never more than MAX_WORKERS.
C16_SessionIsolation ==
    /\ \A t \in Workers : SessionOf(t) = FirstSession(t)
    /\ \A t, u \in Workers : t # u => SessionOf(t) # SessionOf(u)
    /\ \A p, q \in Running :
          p # q => \E t, u \in Workers :
                      /\ threads[t].item = <<p>>
                      /\ threads[u].item = <<q>>
                      /\ SessionOf(t) # SessionOf(u)
    /\ Cardinality(Sessions) = Cardinality(Workers)
    /\ Cardinality(Workers) <= num_threads
    /\ Cardinality(Sessions) <= MAX_WORKERS

\* MAX_WORKERS sessions exist, and a worker that ran an earlier page runs a
\* later one with the session of its first call while other calls are in
\* flight
C16_Witness ==
    /\ Cardinality(Sessions) = MAX_WORKERS
    /\ Cardinality(Running) = MAX_WORKERS
    /\ \E t \in Workers, p \in Running :
          /\ threads[t].item = <<p>>
          /\ p >= MAX_WORKERS
          /\ SessionOf(t) = FirstSession(t)

\* C17: completed plus the number of failed pages is the number of entries
\* of results after every turn of the loop; completed counts the pages read,
\* so at the end it is N minus the failures and reaches N only if none failed.
C17_ProgressAccounting ==
    /\ completed + Len(failed_pages) = Cardinality(DOMAIN results)
    /\ completed = Cardinality(yielded \ Raised)
    /\ LoopEnded => completed = input.pages - Len(failed_pages)
    /\ completed = input.pages => failed_pages = <<>>

\* the loop has ended with one page failed and two read: progress ended at 2/3
C17_Witness ==
    /\ pc = "assemble"
    /\ input.pages = 3
    /\ Len(failed_pages) = 1
    /\ completed = 2

\* C18: a run whose document is rendered is never stuck before it has
\* written both files and never ends with an exception, whatever pages fail:
\* until it is done some step is possible, so fair scheduling takes it to
\* the end.
C18_ReturnsNormally ==
    ~FatalInput =>
        /\ pc # "crashed"
        /\ (pc = "done" /\ Len(written) = 2) \/ ENABLED Next
====
